---- MODULE Spec2Model ----
(***************************************************************************)
(* The request-translation and response-normalization pipeline of the      *)
(* music proxy, in its two deployments whose code parses:                  *)
(*   "worker"  src/_worker.js                      (handleRequest, fetch)  *)
(*   "pages"   src/my-vercel-project/api/music.js  (onRequest)             *)
(* src/unnamed/part_000 (handler) opens a template literal at line 8 that  *)
(* is never closed: the file is a syntax error, the upstream URL it would  *)
(* build is not in the source, and it is not modelled.                     *)
(*                                                                         *)
(* One behaviour is one inbound request.  A query is the sequence of       *)
(* <<key, value>> pairs of a URL query string (keys may repeat).           *)
(***************************************************************************)
EXTENDS Naturals, Sequences, FiniteSets, TLC

VARIABLES variant, request, pc, fetched, apiResponse, exception, responses,
          reapplied

vars == <<variant, request, pc, fetched, apiResponse, exception, responses,
          reapplied>>

\* ------------------------------------------------------------------ bounds

\* Longest inbound query string (number of key=value pairs) of ParamSpec.
MaxParams == 2

\* Most fields of the upstream `data` object that are present at once.
MaxPresent == 2

\* ------------------------------------------------------------- input sets

Variants == {"worker", "pages"}

Methods == {"GET", "POST", "OPTIONS"}

ParamKeys == {"name", "msg", "n", "br", "type", "id"}

ParamValues == {"1", "x"}

Pairs == ParamKeys \X ParamValues

Queries == UNION {[1..k -> Pairs] : k \in 0..MaxParams}

\* The inbound queries of the full pipeline (Spec), where the upstream's
\* answers are what varies.
SampleQueries ==
    { <<>>,
      << <<"name", "x">> >>,
      << <<"name", "x">>, <<"n", "x">> >>,
      << <<"msg", "x">>, <<"br", "x">>, <<"type", "x">> >> }

\* ------------------------------------------------------ JavaScript values

Undefined == [t |-> "undefined", n |-> 0, s |-> ""]

Null == [t |-> "null", n |-> 0, s |-> ""]

Num(n) == [t |-> "number", n |-> n, s |-> ""]

Str(s) == [t |-> "string", n |-> 0, s |-> s]

\* x ?? d : d replaces only undefined and null.
Nullish(x) == x.t \in {"undefined", "null"}

Coalesce(x, d) == IF Nullish(x) THEN d ELSE x

\* x || d : d replaces every falsy value (undefined, null, 0, "").
Truthy(x) ==
    \/ x.t = "number" /\ x.n # 0
    \/ x.t = "string" /\ x.s # ""
    \/ x.t = "object"

Or(x, d) == IF Truthy(x) THEN x ELSE d

\* ------------------------------------------------- upstream JSON bodies

DataFields == {"title", "singer", "cover", "link", "music_url", "lrc_url"}

FieldValues == {Str("a"), Null, Num(0)}

NoFields == [f \in DataFields |-> Undefined]

DataObjects ==
    { d \in [DataFields -> FieldValues \cup {Undefined}] :
        Cardinality({f \in DataFields : d[f] # Undefined}) <= MaxPresent }

\* The `data` member: missing, null, or an object.
DataValues ==
    { [t |-> "undefined", f |-> NoFields], [t |-> "null", f |-> NoFields] }
    \cup { [t |-> "object", f |-> d] : d \in DataObjects }

CodeValues == {Undefined, Num(200), Num(404), Num(0), Null}

MsgValues == {Undefined, Str("not found")}

NoData == [t |-> "undefined", f |-> NoFields]

\* What response.json() meets: text that is not JSON, the JSON value null,
\* or a JSON object {code?, msg?, data?}.
InvalidJSON == [json |-> "invalid", code |-> Undefined, msg |-> Undefined, data |-> NoData]

JSONNull == [json |-> "null", code |-> Undefined, msg |-> Undefined, data |-> NoData]

JSONObjects ==
    { [json |-> "object", code |-> c, msg |-> m, data |-> d] :
        c \in CodeValues, m \in MsgValues, d \in DataValues }

\* ---------------------------------------------------- upstream outcomes

Pending == [kind |-> "pending", status |-> 0, body |-> InvalidJSON]

NetworkFailure == [kind |-> "network", status |-> 0, body |-> InvalidJSON]

ErrorStatuses == {404, 500, 503}

Outcomes ==
    {NetworkFailure}
    \cup { [kind |-> "response", status |-> s, body |-> InvalidJSON] : s \in ErrorStatuses }
    \cup { [kind |-> "response", status |-> 200, body |-> b] :
             b \in {InvalidJSON, JSONNull} \cup JSONObjects }

\* Response.ok
ok(r) == r.kind = "response" /\ r.status \in 200..299

\* --------------------------------------------------------------- headers

ContentType == "Content-Type: application/json; charset=utf-8"

AllowOrigin == "Access-Control-Allow-Origin: *"

Response(body, status, headers) ==
    [body |-> body, status |-> status, headers |-> headers]

ErrorBody(code, prefix, message) ==
    [shape |-> "error", code |-> code,
     error_msg |-> [prefix |-> prefix, message |-> message]]

\* ------------------------------------------- URLSearchParams and Map

has(q, k) == \E i \in DOMAIN q : q[i][1] = k

\* The first value of k.
get(q, k) == q[CHOOSE i \in DOMAIN q : q[i][1] = k /\ \A j \in 1..(i - 1) : q[j][1] # k][2]

\* URLSearchParams.set: the first pair of k takes the value, its other pairs
\* are removed; without a pair of k, one is appended.
set(q, k, v) ==
    IF has(q, k)
    THEN LET first == CHOOSE i \in DOMAIN q :
                         q[i][1] = k /\ \A j \in 1..(i - 1) : q[j][1] # k
         IN  SubSeq(q, 1, first - 1) \o << <<k, v>> >>
               \o SelectSeq(SubSeq(q, first + 1, Len(q)), LAMBDA p : p[1] # k)
    ELSE Append(q, <<k, v>>)

delete(q, k) == SelectSeq(q, LAMBDA p : p[1] # k)

\* Map.set on the Map's entries in insertion order (keys are unique).
mapSet(m, k, v) ==
    IF has(m, k)
    THEN [i \in DOMAIN m |-> IF m[i][1] = k THEN <<k, v>> ELSE m[i]]
    ELSE Append(m, <<k, v>>)

\* for (const [key, value] of searchParams.entries()) requestParams.set(key, value)
RECURSIVE copyEntries(_, _)
copyEntries(entries, m) ==
    IF entries = <<>> THEN m
    ELSE copyEntries(Tail(entries), mapSet(m, Head(entries)[1], Head(entries)[2]))

\* ------------------------------------------------ Parameter Normalizer

worker_rename_first_only(p) ==
    IF has(p, "name") THEN set(p, "msg", get(p, "name")) ELSE p

worker_rename(p) ==
    IF has(p, "name") THEN delete(set(p, "msg", get(p, "name")), "name") ELSE p

worker_force_n_append(p) == Append(p, <<"n", "1">>)

worker_force_n(p) == set(p, "n", "1")

worker_default_br(p) == IF ~has(p, "br") THEN set(p, "br", "1") ELSE p

\* handleRequest, part 1: params after the four rewrites.
worker_params(searchParams) ==
    worker_rename(worker_force_n(worker_default_br(set(searchParams, "type", "json"))))

pages_rename(m) ==
    IF has(m, "name") THEN delete(mapSet(m, "msg", get(m, "name")), "name") ELSE m

pages_force_n_if_absent(m) == IF ~has(m, "n") THEN mapSet(m, "n", "1") ELSE m

pages_force_n(m) == mapSet(m, "n", "1")

pages_default_br(m) == IF ~has(m, "br") THEN mapSet(m, "br", "1") ELSE m

pages_default_type(m) == IF ~has(m, "type") THEN mapSet(m, "type", "json") ELSE m

\* onRequest, part 1: requestParams after the copy and the four rewrites.
pages_requestParams(searchParams) ==
    pages_rename(pages_force_n(pages_default_br(pages_default_type(
        copyEntries(searchParams, <<>>)))))

\* ------------------------------------------------- Response Normalizer

\* music_data.<f> with music_data = api_data.data || {}
music_data(api_data, f) ==
    IF api_data.data.t = "object" THEN api_data.data.f[f] ELSE Undefined

worker_final_response_link_as_lyric(api_data) ==
    [shape |-> "final_response",
     code |-> Coalesce(api_data.code, Num(200)),
     title |-> Coalesce(music_data(api_data, "title"), Str("")),
     singer |-> Coalesce(music_data(api_data, "singer"), Str("")),
     cover |-> Coalesce(music_data(api_data, "cover"), Str("")),
     link |-> Coalesce(music_data(api_data, "link"), Str("")),
     music_url |-> Coalesce(music_data(api_data, "music_url"), Str("")),
     lyric |-> Coalesce(music_data(api_data, "link"), Str(""))]

worker_final_response(api_data) ==
    [shape |-> "final_response",
     code |-> Coalesce(api_data.code, Num(200)),
     title |-> Coalesce(music_data(api_data, "title"), Str("")),
     singer |-> Coalesce(music_data(api_data, "singer"), Str("")),
     cover |-> Coalesce(music_data(api_data, "cover"), Str("")),
     link |-> Coalesce(music_data(api_data, "link"), Str("")),
     music_url |-> Coalesce(music_data(api_data, "music_url"), Str("")),
     lyric |-> Coalesce(music_data(api_data, "lrc_url"), Str(""))]

pages_finalResponse(apiData) ==
    [shape |-> "final_response",
     code |-> Or(apiData.code, Num(200)),
     title |-> Or(music_data(apiData, "title"), Str("")),
     singer |-> Or(music_data(apiData, "singer"), Str("")),
     cover |-> Or(music_data(apiData, "cover"), Str("")),
     link |-> Or(music_data(apiData, "link"), Str("")),
     music_url |-> Or(music_data(apiData, "music_url"), Str("")),
     lyric |-> Or(music_data(apiData, "lrc_url"), Str(""))]

\* if (api_data.code !== 200)
worker_isDomainError(api_data) == api_data.code # Num(200)

\* if (apiData.code && apiData.code !== 200)
pages_isDomainError(apiData) == Truthy(apiData.code) /\ apiData.code # Num(200)

\* JSON.stringify(api_data): the parsed body, as parsed.
Forwarded(api_data) == [shape |-> "api_data", value |-> api_data]

worker_methodAny(method) == TRUE

\* request.method !== 'GET' is the 405 branch.
worker_methodAllowed(method) == method = "GET"

worker_httpErrorResponse_echo_status(r) ==
    Response(ErrorBody(Num(r.status), "HTTP status", ToString(r.status)),
             r.status, {ContentType})

worker_httpErrorResponse(r) ==
    Response(ErrorBody(Num(r.status), "HTTP status", ToString(r.status)),
             500, {ContentType})

worker_catchResponse_status_200(e) ==
    Response(ErrorBody(Num(500), "Internal Server Error", e), 200, {ContentType})

\* The catch of the entry point fetch(request, env, ctx).
worker_catchResponse(e) ==
    Response(ErrorBody(Num(500), "Internal Server Error", e), 500, {ContentType})

\* The catch of onRequest.
pages_catchResponse(e) ==
    Response(ErrorBody(Num(500), "proxy internal error", e), 500, {ContentType})

no_await(r) == TRUE

\* apiResponse = await fetch(...): the handler resumes once the call settled.
await_fetch(r) == r # Pending

\* ------------------------------------------------------------------ state

respond(r) ==
    /\ responses' = Append(responses, r)
    /\ pc' = "done"

InitWith(qs) ==
    /\ variant \in Variants
    /\ request \in [method : Methods, searchParams : qs]
    /\ pc = "start"
    /\ fetched = <<>>
    /\ apiResponse = Pending
    /\ exception = "none"
    /\ responses = <<>>
    /\ reapplied = <<>>

Init == InitWith(SampleQueries)

InitParams == InitWith(Queries)

\* ------------------------------------------------------- worker actions

worker_MethodNotAllowed ==
    /\ variant = "worker" /\ pc = "start"
    /\ ~worker_methodAllowed(request.method)
    /\ respond(Response(ErrorBody(Num(405), "Method Not Allowed", ""), 405, {ContentType}))
    /\ UNCHANGED <<variant, request, fetched, apiResponse, exception, reapplied>>

\* Rewrite the parameters and issue the one upstream GET.
worker_Forward ==
    /\ variant = "worker" /\ pc = "start"
    /\ worker_methodAllowed(request.method)
    /\ fetched' = Append(fetched, worker_params(request.searchParams))
    /\ pc' = "awaiting"
    /\ UNCHANGED <<variant, request, apiResponse, exception, responses, reapplied>>

worker_NetworkError ==
    /\ variant = "worker" /\ pc = "awaiting" /\ await_fetch(apiResponse)
    /\ apiResponse.kind = "network"
    /\ respond(Response(ErrorBody(Num(500), "network error", "fetch failed"),
                        500, {ContentType}))
    /\ UNCHANGED <<variant, request, fetched, apiResponse, exception, reapplied>>

worker_HttpError ==
    /\ variant = "worker" /\ pc = "awaiting" /\ await_fetch(apiResponse)
    /\ apiResponse.kind # "network" /\ ~ok(apiResponse)
    /\ respond(worker_httpErrorResponse(apiResponse))
    /\ UNCHANGED <<variant, request, fetched, apiResponse, exception, reapplied>>

worker_ParseError ==
    /\ variant = "worker" /\ pc = "awaiting" /\ await_fetch(apiResponse)
    /\ ok(apiResponse) /\ apiResponse.body.json = "invalid"
    /\ respond(Response(ErrorBody(Num(500), "JSON parse", "SyntaxError"),
                        500, {ContentType}))
    /\ UNCHANGED <<variant, request, fetched, apiResponse, exception, reapplied>>

\* api_data is null: reading api_data.code throws out of handleRequest.
worker_Throw ==
    /\ variant = "worker" /\ pc = "awaiting" /\ await_fetch(apiResponse)
    /\ ok(apiResponse) /\ apiResponse.body.json = "null"
    /\ exception' = "TypeError"
    /\ pc' = "thrown"
    /\ UNCHANGED <<variant, request, fetched, apiResponse, responses, reapplied>>

worker_Catch ==
    /\ variant = "worker" /\ pc = "thrown"
    /\ respond(worker_catchResponse(exception))
    /\ UNCHANGED <<variant, request, fetched, apiResponse, exception, reapplied>>

worker_DomainError ==
    /\ variant = "worker" /\ pc = "awaiting" /\ await_fetch(apiResponse)
    /\ ok(apiResponse) /\ apiResponse.body.json = "object"
    /\ worker_isDomainError(apiResponse.body)
    /\ respond(Response(Forwarded(apiResponse.body), 200, {ContentType}))
    /\ UNCHANGED <<variant, request, fetched, apiResponse, exception, reapplied>>

worker_Success ==
    /\ variant = "worker" /\ pc = "awaiting" /\ await_fetch(apiResponse)
    /\ ok(apiResponse) /\ apiResponse.body.json = "object"
    /\ ~worker_isDomainError(apiResponse.body)
    /\ respond(Response(worker_final_response(apiResponse.body), 200,
                        {ContentType, AllowOrigin}))
    /\ UNCHANGED <<variant, request, fetched, apiResponse, exception, reapplied>>

\* -------------------------------------------------------- pages actions

\* onRequest checks no method: every request is forwarded.
pages_Forward ==
    /\ variant = "pages" /\ pc = "start"
    /\ fetched' = Append(fetched, pages_requestParams(request.searchParams))
    /\ pc' = "awaiting"
    /\ UNCHANGED <<variant, request, apiResponse, exception, responses, reapplied>>

\* await fetch(...) rejects, response.json() rejects, or apiData is null:
\* each throws to the catch of onRequest.
pages_Throw ==
    /\ variant = "pages" /\ pc = "awaiting" /\ await_fetch(apiResponse)
    /\ \/ apiResponse.kind = "network" /\ exception' = "fetch failed"
       \/ ok(apiResponse) /\ apiResponse.body.json = "invalid" /\ exception' = "SyntaxError"
       \/ ok(apiResponse) /\ apiResponse.body.json = "null" /\ exception' = "TypeError"
    /\ pc' = "thrown"
    /\ UNCHANGED <<variant, request, fetched, apiResponse, responses, reapplied>>

pages_Catch ==
    /\ variant = "pages" /\ pc = "thrown"
    /\ respond(pages_catchResponse(exception))
    /\ UNCHANGED <<variant, request, fetched, apiResponse, exception, reapplied>>

pages_HttpError ==
    /\ variant = "pages" /\ pc = "awaiting" /\ await_fetch(apiResponse)
    /\ apiResponse.kind # "network" /\ ~ok(apiResponse)
    /\ respond(Response(ErrorBody(Num(500), "HTTP status", ToString(apiResponse.status)),
                        500, {ContentType}))
    /\ UNCHANGED <<variant, request, fetched, apiResponse, exception, reapplied>>

pages_DomainError ==
    /\ variant = "pages" /\ pc = "awaiting" /\ await_fetch(apiResponse)
    /\ ok(apiResponse) /\ apiResponse.body.json = "object"
    /\ pages_isDomainError(apiResponse.body)
    /\ respond(Response(Forwarded(apiResponse.body), 200, {ContentType}))
    /\ UNCHANGED <<variant, request, fetched, apiResponse, exception, reapplied>>

pages_Success ==
    /\ variant = "pages" /\ pc = "awaiting" /\ await_fetch(apiResponse)
    /\ ok(apiResponse) /\ apiResponse.body.json = "object"
    /\ ~pages_isDomainError(apiResponse.body)
    /\ respond(Response(pages_finalResponse(apiResponse.body), 200,
                        {ContentType, AllowOrigin}))
    /\ UNCHANGED <<variant, request, fetched, apiResponse, exception, reapplied>>

\* ------------------------------------------------------------ upstream

\* The upstream call settles: the promise of fetch rejects or resolves.
FetchSettles ==
    /\ pc = "awaiting" /\ apiResponse = Pending
    /\ apiResponse' \in Outcomes
    /\ UNCHANGED <<variant, request, pc, fetched, exception, responses, reapplied>>

\* The Parameter Normalizer applied a second time, to the query it produced
\* (the double application the idempotence contract speaks of).
Reapply ==
    /\ pc = "awaiting" /\ reapplied = <<>>
    /\ reapplied' = << IF variant = "worker"
                       THEN worker_params(fetched[1])
                       ELSE pages_requestParams(fetched[1]) >>
    /\ UNCHANGED <<variant, request, pc, fetched, apiResponse, exception, responses>>

\* --------------------------------------------------------- specifications

Next ==
    \/ worker_MethodNotAllowed
    \/ worker_Forward
    \/ worker_NetworkError
    \/ worker_HttpError
    \/ worker_ParseError
    \/ worker_Throw
    \/ worker_Catch
    \/ worker_DomainError
    \/ worker_Success
    \/ pages_Forward
    \/ pages_Throw
    \/ pages_Catch
    \/ pages_HttpError
    \/ pages_DomainError
    \/ pages_Success
    \/ FetchSettles

Spec == Init /\ [][Next]_vars

NextParams ==
    \/ worker_MethodNotAllowed
    \/ worker_Forward
    \/ pages_Forward
    \/ Reapply

ParamSpec == InitParams /\ [][NextParams]_vars

\* ------------------------------------------------------------ properties

inbound == request.searchParams

valuesOf(q, k) == {q[i][2] : i \in {j \in DOMAIN q : q[j][1] = k}}

pairsOf(q, k) == Cardinality({i \in DOMAIN q : q[i][1] = k})

\* The value the InboundQuery mapping gives a key the query string repeats:
\* URLSearchParams.get reads its first pair, the copy into a Map keeps its last.
valueOf(q, k) ==
    LET at == {i \in DOMAIN q : q[i][1] = k}
    IN  IF variant = "worker"
        THEN q[CHOOSE i \in at : \A j \in at : i <= j][2]
        ELSE q[CHOOSE i \in at : \A j \in at : i >= j][2]

\* C1: when the inbound query holds `name` with value X, the query of the
\* upstream call holds msg = X, and only that msg whatever msg the caller
\* sent, and holds no name.
C1_NameBecomesMsg ==
    (fetched # <<>> /\ has(inbound, "name")) =>
        /\ valuesOf(fetched[1], "msg") = {valueOf(inbound, "name")}
        /\ pairsOf(fetched[1], "msg") = 1
        /\ ~has(fetched[1], "name")

C1_Witness ==
    /\ fetched # <<>>
    /\ valuesOf(inbound, "name") = {"x"}
    /\ valuesOf(inbound, "msg") = {"1"}
    /\ valuesOf(fetched[1], "msg") = {"x"}

\* C2: the query of every upstream call holds n = "1" and no other n,
\* whether the caller sent no n, one n or several.
C2_NForcedToOne ==
    \A i \in DOMAIN fetched :
        /\ valuesOf(fetched[i], "n") = {"1"}
        /\ pairsOf(fetched[i], "n") = 1

C2_Witness ==
    /\ fetched # <<>>
    /\ valuesOf(inbound, "n") = {"1", "x"}
    /\ valuesOf(fetched[1], "n") = {"1"}

\* C3: the Parameter Normalizer applied to its own output returns that
\* output, in both variants.
C3_NormalizeIdempotent ==
    reapplied # <<>> => reapplied[1] = fetched[1]

C3_Witness ==
    /\ reapplied # <<>>
    /\ has(inbound, "name") /\ has(inbound, "type")
    /\ fetched[1] # inbound
    /\ reapplied[1] = fetched[1]

settled == pc = "done" /\ fetched # <<>> /\ apiResponse # Pending

api_data == apiResponse.body

parsedObject == settled /\ ok(apiResponse) /\ api_data.json = "object"

OutputFields == {"title", "singer", "cover", "link", "music_url", "lyric"}

sourceField(f) == IF f = "lyric" THEN "lrc_url" ELSE f

\* The value survives the variant's defaulting operator: ?? in the worker,
\* || in the Pages function.
kept(x) == IF variant = "worker" THEN ~Nullish(x) ELSE Truthy(x)

C4_Case == parsedObject /\ api_data.code = Num(200)

\* C4 as amended: on an upstream success with code 200 the response is
\* status 200 with the record {code, title, singer, cover, link, music_url,
\* lyric}; each field is data's field (lyric: data.lrc_url) when that value
\* is not null or missing (worker) or is truthy (Pages), and "" otherwise.
C4_SuccessMapping ==
    C4_Case =>
        /\ responses[1].status = 200
        /\ DOMAIN responses[1].body = OutputFields \cup {"shape", "code"}
        /\ responses[1].body.shape = "final_response"
        /\ responses[1].body.code = Num(200)
        /\ \A f \in OutputFields :
              responses[1].body[f] =
                  IF kept(music_data(api_data, sourceField(f)))
                  THEN music_data(api_data, sourceField(f))
                  ELSE Str("")

\* C4 as claimed: each field is data's field whenever it is present.
C4_Original ==
    C4_Case =>
        /\ responses[1].status = 200
        /\ responses[1].body.shape = "final_response"
        /\ responses[1].body.code = Num(200)
        /\ \A f \in OutputFields :
              responses[1].body[f] =
                  IF music_data(api_data, sourceField(f)) # Undefined
                  THEN music_data(api_data, sourceField(f))
                  ELSE Str("")

C4_Witness ==
    /\ C4_Case
    /\ api_data.data.t = "object"
    /\ api_data.data.f["title"] = Str("a")
    /\ api_data.data.f["lrc_url"] = Null
    /\ responses[1].body.title = Str("a")
    /\ responses[1].body.singer = Str("")
    /\ responses[1].body.lyric = Str("")

\* C5 as claimed: a parsed JSON object is forwarded unchanged with status
\* 200 exactly when its code is present and not 200, and a body without
\* code is mapped to a NormalizedResult with code 200.
C5_ForwardIffCodeNot200 ==
    parsedObject =>
        /\ (responses[1] = Response(Forwarded(api_data), 200, responses[1].headers))
              <=> (api_data.code # Undefined /\ api_data.code # Num(200))
        /\ api_data.code = Undefined
              => /\ responses[1].body.shape = "final_response"
                 /\ responses[1].body.code = Num(200)

transportError ==
    /\ settled
    /\ \/ apiResponse.kind = "network"
       \/ ~ok(apiResponse)
       \/ api_data.json = "invalid"

httpError == apiResponse.kind = "response" /\ ~ok(apiResponse)

\* C6 as amended: a network failure, a non-2xx status and an unparsable
\* body each end in status 500 with body {code, error_msg}; code is 500,
\* except that the worker's non-2xx branch puts the upstream status there.
C6_TransportErrors ==
    transportError =>
        /\ responses[1].status = 500
        /\ responses[1].body.shape = "error"
        /\ DOMAIN responses[1].body = {"shape", "code", "error_msg"}
        /\ responses[1].body.code =
              IF variant = "worker" /\ httpError
              THEN Num(apiResponse.status) ELSE Num(500)

\* C6 as claimed: the body's code is 500 in all three cases.
C6_Original ==
    transportError =>
        /\ responses[1].status = 500
        /\ responses[1].body.shape = "error"
        /\ responses[1].body.code = Num(500)

C6_Witness ==
    /\ transportError
    /\ variant = "worker" /\ httpError /\ apiResponse.status = 404
    /\ responses[1].status = 500
    /\ responses[1].body.code = Num(404)

nonGetOnWorker == variant = "worker" /\ request.method # "GET"

\* C7: a non-GET request to the worker is answered 405 with
\* {code: 405, error_msg: "Method Not Allowed"} and no upstream call is
\* issued for it, before or after.
C7_MethodNotAllowed ==
    nonGetOnWorker =>
        /\ fetched = <<>>
        /\ apiResponse = Pending
        /\ pc \in {"start", "done"}
        /\ pc = "done" =>
              /\ Len(responses) = 1
              /\ responses[1].status = 405
              /\ responses[1].body = ErrorBody(Num(405), "Method Not Allowed", "")

C7_Witness ==
    /\ nonGetOnWorker /\ request.method = "POST"
    /\ pc = "done" /\ responses[1].status = 405 /\ fetched = <<>>

\* C8: a request issues at most one upstream GET, whatever its outcome,
\* and a response that follows a call is produced only once it settled.
C8_SingleUpstreamCall ==
    /\ Len(fetched) <= 1
    /\ (responses # <<>> /\ fetched # <<>>) => apiResponse # Pending
    /\ pc \in {"awaiting", "thrown"} => Len(fetched) = 1 /\ responses = <<>>

C8_Witness ==
    /\ pc = "done" /\ Len(fetched) = 1 /\ Len(responses) = 1
    /\ apiResponse.kind = "network"

\* C9 as claimed: every response carries Content-Type: application/json;
\* charset=utf-8 and Access-Control-Allow-Origin: *.
C9_HeadersOnEveryResponse ==
    \A i \in DOMAIN responses :
        {ContentType, AllowOrigin} \subseteq responses[i].headers

\* C10: a request ends with exactly one response and cannot stop before
\* it; when handling threw, that response is status 500 with body
\* {code: 500, error_msg: <the exception's message>}.
C10_UnhandledErrors ==
    /\ Len(responses) <= 1
    /\ pc = "done" <=> Len(responses) = 1
    /\ pc = "done" \/ ENABLED Next
    /\ pc = "thrown" => exception # "none"
    /\ (pc = "done" /\ exception # "none") =>
          /\ responses[1].status = 500
          /\ responses[1].body.shape = "error"
          /\ responses[1].body.code = Num(500)
          /\ responses[1].body.error_msg.message = exception

C10_Witness ==
    /\ pc = "done" /\ variant = "worker"
    /\ api_data.json = "null" /\ exception = "TypeError"
    /\ responses[1].status = 500

====
